---- MODULE Spec2Model ----
(***************************************************************************)
(* terraform-state-wrapper: the HTTP adapter handler (backendHandler), the *)
(* orchestrator (Wrap) and the file backend, as one state machine.         *)
(*                                                                         *)
(* Handler executions are the goroutines net/http starts per request; two  *)
(* of them (Handlers) run concurrently with each other and with Wrap.      *)
(* A response is what the handler hands to its http.ResponseWriter: the    *)
(* first status written and the chunks written after it.                   *)
(***************************************************************************)
EXTENDS Integers, Sequences, FiniteSets, TLC

(* ------------------------------------------------------------------ *)
(* Bounds                                                             *)
(* ------------------------------------------------------------------ *)

\* longest state payload (request body / file content), in bytes
MaxLen == 1

\* the byte alphabet of payloads
Bytes == {"x"}

Payloads == UNION {[1..n -> Bytes] : n \in 0..MaxLen}

\* the two concurrent handler executions
Handlers == {"h1", "h2"}

(* ------------------------------------------------------------------ *)
(* Go values: errors, byte slices, LockInfo                            *)
(* ------------------------------------------------------------------ *)

\* a nil error
Nil == "<nil>"

\* a []byte is nil or a (possibly empty) sequence of bytes
NilSlice == [isNil |-> TRUE, bytes |-> <<>>]

Slice(b) == [isNil |-> FALSE, bytes |-> b]

\* time.Time values: the zero time, an ordinary instant, and an instant whose
\* year is past 9999 (time.Time.MarshalJSON refuses it)
ZeroTime == 0

SomeTime == 1

FarTime == 2

LockInfoFields == {"ID", "Operation", "Info", "Who", "Version", "Created", "Path"}

ZeroLockInfo ==
  [ID |-> "", Operation |-> "", Info |-> "", Who |-> "", Version |-> "",
   Created |-> ZeroTime, Path |-> ""]

MkLock(id, op, created, path) ==
  [ID |-> id, Operation |-> op, Info |-> "", Who |-> "me@host", Version |-> "1.5",
   Created |-> created, Path |-> path]

(* ------------------------------------------------------------------ *)
(* encoding/json on LockInfo                                           *)
(* ------------------------------------------------------------------ *)

\* A JSON text is described by its form ("object", or "syntax" for text that
\* is not valid JSON), the keys it carries, the keys whose value has the wrong
\* JSON type for the field, and the values of its keys.
NoDoc == [form |-> "none", keys |-> {}, bad |-> {}, val |-> ZeroLockInfo]

SyntaxErrDoc == [form |-> "syntax", keys |-> {}, bad |-> {}, val |-> ZeroLockInfo]

ObjectDoc(keys, bad, val) == [form |-> "object", keys |-> keys, bad |-> bad, val |-> val]

\* json.Unmarshal(data, &lockData): invalid text leaves lockData untouched;
\* a key of the wrong type is skipped, the others are stored, and the first
\* type error is returned at the end.
Unmarshal(doc) ==
  [lock |-> [k \in LockInfoFields |->
               IF doc.form = "object" /\ k \in doc.keys \ doc.bad
               THEN doc.val[k] ELSE ZeroLockInfo[k]],
   err |-> IF doc.form # "object" THEN "json: syntax error"
           ELSE IF doc.bad # {} THEN "json: cannot unmarshal"
           ELSE Nil]

\* json.Marshal(lock): every field is written; a Created year outside
\* [0,9999] makes time.Time.MarshalJSON fail and Marshal return (nil, err).
Marshal(lock) ==
  IF lock.Created = FarTime
  THEN [doc |-> NoDoc, err |-> "json: year outside of range"]
  ELSE [doc |-> ObjectDoc(LockInfoFields, {}, lock), err |-> Nil]

(* ------------------------------------------------------------------ *)
(* http.ResponseWriter                                                 *)
(* ------------------------------------------------------------------ *)

\* status 0: no header written yet
NewResponse == [status |-> 0, body |-> <<>>]

\* what a Write adds to the body: a line of text (Fprintln), raw bytes, or a
\* JSON text
LineChunk(text) == [kind |-> "line", text |-> text, data |-> <<>>, doc |-> <<>>]

RawChunk(bytes) == [kind |-> "raw", text |-> "", data |-> bytes, doc |-> <<>>]

JsonChunk(doc) == [kind |-> "json", text |-> "", data |-> <<>>, doc |-> <<doc>>]

\* w.WriteHeader(code): only the first call sets the status, later calls are
\* logged as superfluous and ignored.
WriteHeader(w, code) == IF w.status = 0 THEN [w EXCEPT !.status = code] ELSE w

\* w.Write(chunk): writes the 200 header when none was written, then appends.
WriteChunk(w, chunk) ==
  LET w1 == WriteHeader(w, 200)
  IN  [w1 EXCEPT !.body = Append(w1.body, chunk)]

\* w.Write(data) for raw bytes: zero bytes add nothing to the body
WriteBytes(w, bytes) ==
  IF bytes = <<>> THEN WriteHeader(w, 200) ELSE WriteChunk(w, RawChunk(bytes))

\* http.Error(w, text, code): WriteHeader(code), then the text as one line
HttpError(w, text, code) == WriteChunk(WriteHeader(w, code), LineChunk(text))

\* returnError (the closure of the handler)
ReturnError(w, err) == HttpError(w, err, 500)


(* ------------------------------------------------------------------ *)
(* Requests                                                            *)
(* ------------------------------------------------------------------ *)

Methods == {"GET", "POST", "DELETE", "LOCK", "UNLOCK", "PUT"}

\* the password randSeq produces in the run explored, and another string
Passwords == {"pwA"}

OtherPassword == "pwB"

AuthUser == "auth"

\* request.BasicAuth(): no Authorization header, or a user and a password
NoCreds == [present |-> FALSE, user |-> "", pass |-> ""]

Creds(u, p) == [present |-> TRUE, user |-> u, pass |-> p]

CredChoices == {NoCreds} \cup {Creds(AuthUser, p) : p \in Passwords \cup {OtherPassword}}

\* the query string: the values given for ID, in order (none when absent)
Queries == {<<>>, <<"lock-123">>}

\* request.URL.Query().Get("ID"): the first value, "" when there is none
QueryGet(q) == IF q = <<>> THEN "" ELSE q[1]

\* bodies of LOCK / UNLOCK requests
LockA == MkLock("id-a", "plan", SomeTime, "")

LockB == MkLock("id-b", "apply", SomeTime, "")

RequestDocs ==
  { SyntaxErrDoc,
    ObjectDoc(LockInfoFields, {}, LockA),
    ObjectDoc({"ID", "Operation", "Created"}, {}, LockB),
    ObjectDoc(LockInfoFields, {"ID"}, LockA) }

\* a LOCK / UNLOCK body may arrive cut short (tried on one of the bodies)
CutChoices(d) == IF d = ObjectDoc(LockInfoFields, {}, LockA) THEN BOOLEAN ELSE {FALSE}

\* io.ReadAll(request.Body): everything, or a proper prefix and an error
Prefixes(b) == {SubSeq(b, 1, n) : n \in 0..(Len(b) - 1)}

ReadErr == "unexpected EOF"

ReadOutcomes(b) ==
  {[data |-> b, err |-> Nil]} \cup {[data |-> p, err |-> ReadErr] : p \in Prefixes(b)}

\* the comment handed to Set: fmt.Sprintf("updated with terraform '%s' by '%s'", ...)
SystemUserName == "operator"

Comment(action) == [action |-> action, by |-> SystemUserName]

NoComment == [action |-> "", by |-> ""]

\* one Backend call of a handler execution, with what it returned
Call(op, data, lockID, comment, lock) ==
  [op |-> op, data |-> data, lockID |-> lockID, comment |-> comment, lock |-> lock,
   returned |-> FALSE, fault |-> FALSE, free |-> FALSE,
   rdata |-> NilSlice, rok |-> FALSE, rlock |-> ZeroLockInfo, rerr |-> Nil]

Returned(c, rdata, rok, rlock, rerr) ==
  [c EXCEPT !.returned = TRUE, !.rdata = rdata, !.rok = rok, !.rlock = rlock, !.rerr = rerr]

IdleRequest ==
  [pc |-> "idle", method |-> "", creds |-> NoCreds, query |-> <<>>,
   body |-> <<>>, doc |-> NoDoc, readErr |-> Nil,
   data |-> <<>>, lockData |-> ZeroLockInfo, decodeErr |-> Nil,
   w |-> NewResponse, calls |-> <<>>,
   expect |-> NilSlice, expectAbsent |-> FALSE, expectDeleted |-> FALSE,
   quiet |-> FALSE, raced |-> FALSE]


(* ------------------------------------------------------------------ *)
(* backendHandler: the code between two Backend calls, as operators    *)
(* ------------------------------------------------------------------ *)

\* the condition of line 84, negated: the request carries the session's credentials
AuthOKIgnoresPassword(creds, user, password) ==
  creds.present /\ creds.user = user

AuthOK(creds, user, password) ==
  creds.present /\ creds.user = user /\ creds.pass = password

\* lines 83-86: a 401 is written on a mismatch, and the handler goes on
CheckAuth(w, creds, user, password) ==
  IF ~AuthOK(creds, user, password) THEN HttpError(w, "Unauthorized", 401) ELSE w

\* `if err != nil { returnError(err) }`, as the handler writes it everywhere
OnErr(w, err) == IF err # Nil THEN ReturnError(w, err) ELSE w

\* which branch of the two switches (lines 92-176) a request takes
RouteIgnoresLockable(method, lockable) ==
  CASE method = "GET" -> "get"
    [] method = "POST" -> "post"
    [] method = "DELETE" -> "delete"
    [] method = "LOCK" -> "lock"
    [] method = "UNLOCK" -> "unlock"
    [] OTHER -> "invalid"

Route(method, lockable) ==
  CASE method = "GET" -> "get"
    [] method = "POST" -> "post"
    [] method = "DELETE" -> "delete"
    [] lockable /\ method = "LOCK" -> "lock"
    [] lockable /\ method = "UNLOCK" -> "unlock"
    [] OTHER -> "invalid"

\* lines 95-107, after backend.Get returned (data, err)
AfterGetSilentOn401(w, data, err) ==
  IF w.status = 401 THEN w
  ELSE LET w1 == OnErr(w, err)
       IN  IF data.isNil THEN WriteHeader(w1, 404)
           ELSE WriteBytes(WriteHeader(w1, 200), data.bytes)

AfterGet(w, data, err) ==
  LET w1 == OnErr(w, err)
  IN  IF data.isNil THEN WriteHeader(w1, 404)
      ELSE WriteBytes(WriteHeader(w1, 200), data.bytes)

\* lines 117-122, after backend.Set returned err
AfterSet(w, err) == WriteHeader(OnErr(w, err), 200)

\* lines 125-130, after backend.Delete returned err
AfterDelete(w, err) == WriteHeader(OnErr(w, err), 200)

\* lines 150-163 and 171, after backend.Lock returned (ok, lock, err)
AfterLockReportsRequest(w, lockData, ok, lock, err) ==
  LET w1 == OnErr(w, err)
      m  == Marshal(lockData)
      w2 == IF ok THEN w1
            ELSE LET w3 == WriteHeader(OnErr(w1, m.err), 409)
                 IN  IF m.err # Nil THEN w3 ELSE WriteChunk(w3, JsonChunk(m.doc))
  IN  WriteHeader(w2, 200)

AfterLock(w, lockData, ok, lock, err) ==
  LET w1 == OnErr(w, err)
      m  == Marshal(lock)
      w2 == IF ok THEN w1
            ELSE LET w3 == WriteHeader(OnErr(w1, m.err), 409)
                 IN  IF m.err # Nil THEN w3 ELSE WriteChunk(w3, JsonChunk(m.doc))
  IN  WriteHeader(w2, 200)

\* lines 165-171, after backend.UnLock returned err
AfterUnLock(w, err) == WriteHeader(OnErr(w, err), 200)


(* ------------------------------------------------------------------ *)
(* State                                                               *)
(* ------------------------------------------------------------------ *)

VARIABLES
  wpc,          \* where Wrap stands: "config", "listen", "go", "setenv", "launch", "wait", "exited"
  args,         \* os.Args[1:]
  action,       \* terraformAction
  authPassword, \* the session password
  listener,     \* "none", "open", "closed"
  deferred,     \* the calls Wrap has deferred, to be run when Wrap returns
  serving,      \* the goroutine of line 212 is inside http.Serve
  env,          \* the TF_HTTP_* variables of the process environment, as Wrap wrote them
  child,        \* the child process
  exitCode,     \* the exit status of the wrapper process, once wpc = "exited"
  logged,       \* what log.Fatal printed before it ended the process
  configCalls,  \* how often Backend.Config was called
  configOK,     \* Backend.Config returned nil
  kind,         \* the Backend implementation: "file", "stub", "mutex"
  configurable, \* what Config needs is there (file: TF_STATE_WRAPPER_FILE_PATH is set)
  file,         \* the state file: NilSlice when it does not exist
  holder,       \* mutex backend: the lock held
  req,          \* the handler executions
  lastPost,     \* history: payload of the last POST answered 200, no POST/DELETE since
  pristine,     \* history: the backend started empty and no POST was received
  deleted,      \* history: a DELETE was answered 200, no POST in flight then or received since
  serveErr      \* history: the error http.Serve returned to the goroutine of line 212

wrapVars == <<wpc, args, action, authPassword, listener, deferred, serving, env, child, exitCode, logged,
              configCalls, configOK>>

backendVars == <<kind, configurable, file, holder>>

histVars == <<lastPost, pristine, deleted, serveErr>>

vars == <<wrapVars, backendVars, req, histVars>>

\* the argument lists tried
ArgLists == { <<>>, <<"terraform", "plan">>, <<"-v", "apply">> }

ExitStatuses == {0, 1, 7}

NoChild == [state |-> "none", status |-> 0]

NotHeld == [held |-> FALSE, info |-> ZeroLockInfo]

Held(info) == [held |-> TRUE, info |-> info]

EnvNames == {"TF_HTTP_ADDRESS", "TF_HTTP_USERNAME", "TF_HTTP_PASSWORD",
             "TF_HTTP_LOCK_ADDRESS", "TF_HTTP_UNLOCK_ADDRESS"}

Unset == "<unset>"

BackendUrl == "http://127.0.0.1:port/backend"

\* Backend.Lockable(): false for the file backend (backend.go:54)
Lockable(k) == k # "file"

Init ==
  /\ wpc = "config"
  /\ args \in ArgLists
  /\ action = ""
  /\ authPassword = ""
  /\ listener = "none"
  /\ deferred = <<>>
  /\ serving = FALSE
  /\ env = [n \in EnvNames |-> Unset]
  /\ child = NoChild
  /\ exitCode = 0
  /\ logged = ""
  /\ configCalls = 0
  /\ configOK = FALSE
  /\ kind \in {"file", "stub", "mutex"}
  /\ configurable \in BOOLEAN
  /\ file \in IF kind = "file" THEN {NilSlice} \cup {Slice(p) : p \in Payloads} ELSE {NilSlice}
  /\ holder = NotHeld
  /\ req = [h \in Handlers |-> IdleRequest]
  /\ lastPost = NilSlice
  /\ pristine = file.isNil
  /\ deleted = FALSE
  /\ serveErr = Nil


(* ------------------------------------------------------------------ *)
(* Wrap                                                                *)
(* ------------------------------------------------------------------ *)

\* arguments that start with '-'
Dashed == {"-v"}

\* lines 186-192: the first argument that is not empty and does not start with '-'
TerraformAction(a) ==
  LET named == {i \in 1..Len(a) : a[i] # "" /\ a[i] \notin Dashed}
  IN  IF named = {} THEN ""
      ELSE a[CHOOSE i \in named : \A j \in named : i <= j]

\* os.Exit(code): the exit status the parent of the wrapper sees
ExitStatus(code) == code % 256

\* line 198: defer pushes a call that runs when the function returns
Defer(stack, call) == <<call>> \o stack

\* os.Exit / log.Fatal: the process ends, and its goroutines with it; deferred
\* calls are not run (listener and deferred stay as they are)
Exit(code) ==
  /\ wpc' = "exited"
  /\ exitCode' = ExitStatus(code)
  /\ serving' = FALSE
  /\ req' = [h \in Handlers |-> IdleRequest]

\* log.Fatal(v): prints v, then os.Exit(1)
FatalExitsZero(msg) == Exit(0) /\ logged' = msg

Fatal(msg) == Exit(1) /\ logged' = msg

UsageMsg == "usage: ./wrapper terraform plan|apply|validate..."

BindErr == "listen tcp 127.0.0.1:0: bind failed"

StartErr == "exec: executable file not found"

WaitErr == "wait: failed"

\* Backend.Config (backend.go:16-22 for the file backend)
ConfigResult(ok) == IF ok THEN Nil ELSE "'TF_STATE_WRAPPER_FILE_PATH' must be set"

\* lines 181-184: an error of Config ends the run
ConfigFatalNever(err) == FALSE

ConfigFatal(err) == err # Nil

\* lines 181-192
WrapConfig ==
  /\ wpc = "config"
  /\ configCalls' = configCalls + 1
  /\ LET err == ConfigResult(configurable)
     IN  /\ configOK' = (err = Nil)
         /\ IF ConfigFatal(err)
            THEN /\ Fatal(err)
                 /\ UNCHANGED action
            ELSE /\ action' = TerraformAction(args)
                 /\ wpc' = "listen"
                 /\ UNCHANGED <<exitCode, serving, req, logged>>
  /\ UNCHANGED <<args, authPassword, listener, deferred, env, child, backendVars, histVars>>

\* lines 194-210: createListener, the URL, the credentials, the mux
WrapListen ==
  /\ wpc = "listen"
  /\ \E bound \in BOOLEAN :
       IF bound
       THEN /\ listener' = "open"
            /\ deferred' = Defer(deferred, "closeListener")
            /\ authPassword' \in Passwords
            /\ wpc' = "go"
            /\ UNCHANGED <<exitCode, serving, req, logged>>
       ELSE /\ Fatal(BindErr)
            /\ UNCHANGED <<listener, deferred, authPassword>>
  /\ UNCHANGED <<args, action, env, child, configCalls, configOK, backendVars, histVars>>

\* lines 212-221: the goroutine is started and enters http.Serve
WrapGo ==
  /\ wpc = "go"
  /\ serving' = TRUE
  /\ wpc' = "setenv"
  /\ UNCHANGED <<args, action, authPassword, listener, deferred, env, child, exitCode, logged,
                 configCalls,
                 configOK, backendVars, req, histVars>>

\* errors.As(err, &closedErr) with closedErr of type error: any error matches
ErrorsAs(err) == err # Nil

\* http.Serve returns when Accept fails for good: with the error of a closed
\* listener when the listener was closed, else with the error of the failure
\* (ErrServerClosed comes from Server.Shutdown and Server.Close only, which
\* Wrap does not call)
ClosedListenerErr == "use of closed network connection"

ServeErrors(l) == IF l = "closed" THEN {ClosedListenerErr} ELSE {"accept: listener failed"}

\* lines 213-220: http.Serve returned err (the listener stopped accepting).
\* The handler executions in flight go on whether Serve has returned or not,
\* so the return is explored between requests only.
ServeReturn ==
  /\ serving
  /\ wpc # "exited"
  /\ \A h \in Handlers : req[h].pc = "idle"
  /\ \E err \in ServeErrors(listener) :
       /\ serveErr' = err
       /\ IF ErrorsAs(err)
          THEN /\ serving' = FALSE
               /\ UNCHANGED <<wpc, exitCode, req, logged>>
          ELSE Fatal(err)
  /\ UNCHANGED <<args, action, authPassword, listener, deferred, env, child, configCalls, configOK,
                 backendVars, lastPost, pristine, deleted>>

\* os.Setenv(name, value) on the environment e
SetenvKeepsOld(e, name, value) == e

Setenv(e, name, value) == [e EXCEPT ![name] = value]

\* lines 223-248
WrapSetenv ==
  /\ wpc = "setenv"
  /\ LET e1 == Setenv(env, "TF_HTTP_ADDRESS", BackendUrl)
         e2 == Setenv(e1, "TF_HTTP_USERNAME", AuthUser)
         e3 == Setenv(e2, "TF_HTTP_PASSWORD", authPassword)
     IN  env' = IF Lockable(kind)
                THEN Setenv(Setenv(e3, "TF_HTTP_LOCK_ADDRESS", BackendUrl),
                            "TF_HTTP_UNLOCK_ADDRESS", BackendUrl)
                ELSE e3
  /\ wpc' = "launch"
  /\ UNCHANGED <<args, action, authPassword, listener, deferred, serving, child, exitCode, logged,
                 configCalls,
                 configOK, backendVars, req, histVars>>

\* lines 250-257 and 264-266: the child is started, or there is none to start
WrapLaunchBeforeSetenv ==
  /\ wpc \in {"setenv", "launch"}
  /\ IF Len(args) > 0
     THEN /\ child' = [state |-> "running", status |-> 0]
          /\ wpc' = "wait"
          /\ UNCHANGED <<exitCode, serving, req, logged>>
     ELSE /\ Fatal(UsageMsg)
          /\ UNCHANGED child
  /\ UNCHANGED <<args, action, authPassword, listener, deferred, env, configCalls, configOK,
                 backendVars, histVars>>

WrapLaunch ==
  /\ wpc = "launch"
  /\ IF Len(args) > 0
     THEN \E started \in BOOLEAN :
            IF started
            THEN /\ child' = [state |-> "running", status |-> 0]
                 /\ wpc' = "wait"
                 /\ UNCHANGED <<exitCode, serving, req, logged>>
            ELSE /\ child' = [state |-> "failed", status |-> 0]
                 /\ Fatal(StartErr)
     ELSE /\ Fatal(UsageMsg)
          /\ UNCHANGED child
  /\ UNCHANGED <<args, action, authPassword, listener, deferred, env, configCalls, configOK,
                 backendVars, histVars>>

\* exitErr.ExitCode(): the status of a child that exited, -1 for one a signal ended
ExitCodeOfAlwaysOne(c) == 1

ExitCodeOf(c) == IF c.state = "exited" THEN c.status ELSE 0 - 1

\* lines 257-263: terraform.Run() returned
WrapChildExit ==
  /\ wpc = "wait"
  /\ \E c \in {[state |-> "exited", status |-> n] : n \in ExitStatuses}
              \cup {[state |-> "signaled", status |-> 0],
                    [state |-> "waitfailed", status |-> 0]} :
       /\ child' = c
       /\ CASE c.state = "exited" /\ c.status = 0 -> Exit(0) /\ UNCHANGED logged
            [] c.state = "waitfailed" -> Fatal(WaitErr)
            [] OTHER -> Exit(ExitCodeOf(c)) /\ UNCHANGED logged
  /\ UNCHANGED <<args, action, authPassword, listener, deferred, env, configCalls, configOK,
                 backendVars, histVars>>


(* ------------------------------------------------------------------ *)
(* backendHandler: the handler executions                              *)
(* ------------------------------------------------------------------ *)

InFlight(r) == r.pc \notin {"idle", "done"}

\* History, kept in the requests for the properties below.  A GET of the file
\* backend notes on arrival what the state is known to be (expect,
\* expectAbsent, expectDeleted); a POST of the file backend is quiet while no other POST or
\* DELETE is in flight with it; a LOCK of the mutex backend is quiet while no
\* UNLOCK is in flight with it or arrives after it.  Arrive(h, r) is req with
\* the request r arrived at h.
Disturbs(m, r) ==
  CASE kind = "file" -> m \in {"POST", "DELETE"}
    [] kind = "mutex" -> m = "UNLOCK"
    [] OTHER -> FALSE

\* a LOCK of the mutex backend has raced when it was in flight together with
\* another LOCK
Races(r, o) == kind = "mutex" /\ r.method = "LOCK" /\ o.method = "LOCK" /\ InFlight(o)

Arrive(h, r) ==
  [g \in Handlers |->
     IF g = h
     THEN [r EXCEPT !.expect = IF kind = "file" /\ r.method = "GET" THEN lastPost ELSE NilSlice,
                    !.expectAbsent = (kind = "file" /\ r.method = "GET" /\ pristine),
                    !.expectDeleted = (kind = "file" /\ r.method = "GET" /\ deleted),
                    !.quiet = /\ \/ kind = "file" /\ r.method = "POST"
                                 \/ kind = "mutex" /\ r.method = "LOCK"
                              /\ \A o \in Handlers \ {h} :
                                   ~(InFlight(req[o]) /\ Disturbs(req[o].method, r)),
                    !.raced = \E o \in Handlers \ {h} : Races(r, req[o])]
     ELSE IF Disturbs(r.method, req[g])
          THEN [req[g] EXCEPT !.expect = NilSlice,
                              !.quiet = FALSE,
                              !.expectAbsent = @ /\ r.method # "POST",
                              !.expectDeleted = @ /\ r.method # "POST"]
          ELSE [req[g] EXCEPT !.raced = @ \/ Races(r, req[g])]]

\* Two handler executions are explored together when both reach state of the
\* Backend that the other may change: the file of the file backend, the lock
\* of the mutex backend.  The stub backend has no state.
MayInteract(m1, m2) ==
  CASE kind = "file" -> {m1, m2} \subseteq {"GET", "POST", "DELETE"}
    [] kind = "mutex" -> {m1, m2} \subseteq {"LOCK", "UNLOCK"}
    [] OTHER -> FALSE

\* lines 83-92, 109-114 and 133-146: the request arrives, the credentials are
\* checked, the method is routed and the body is read and decoded, up to the
\* Backend call of the branch (or to the 405 of line 176)
Receive(h) ==
  /\ serving
  /\ child.state = "running"
  /\ req[h].pc = "idle"
  /\ h = "h2" => req["h1"].pc # "idle"
  /\ \E m \in Methods, c \in CredChoices :
       /\ \A o \in Handlers \ {h} : req[o].pc # "idle" => MayInteract(m, req[o].method)
       /\ LET w1    == CheckAuth(NewResponse, c, AuthUser, authPassword)
              route == Route(m, Lockable(kind))
              r0    == [IdleRequest EXCEPT !.method = m, !.creds = c]
          IN  CASE route \in {"get", "delete"} ->
                     req' = Arrive(h, [r0 EXCEPT !.pc = route, !.w = w1])
                [] route = "post" ->
                     \E q \in Queries, b \in Payloads :
                       \E rd \in ReadOutcomes(b) :
                         req' = Arrive(h, [r0 EXCEPT !.pc = "set", !.query = q, !.body = b,
                                                     !.data = rd.data, !.readErr = rd.err,
                                                     !.w = OnErr(w1, rd.err)])
                [] route \in {"lock", "unlock"} ->
                     \E d \in RequestDocs : \E cut \in CutChoices(d) :
                       LET rerr == IF cut THEN ReadErr ELSE Nil
                           u    == Unmarshal(IF cut THEN SyntaxErrDoc ELSE d)
                       IN  req' = Arrive(h, [r0 EXCEPT !.pc = route, !.doc = d,
                                                       !.readErr = rerr,
                                                       !.lockData = u.lock,
                                                       !.decodeErr = u.err,
                                                       !.w = OnErr(OnErr(w1, rerr), u.err)])
                [] OTHER ->
                     req' = Arrive(h, [r0 EXCEPT !.pc = "done",
                                                 !.w = HttpError(w1, "invalid method", 405)])
  /\ lastPost' = IF kind = "file" /\ req'[h].method \in {"POST", "DELETE"}
                 THEN NilSlice ELSE lastPost
  /\ pristine' = (pristine /\ req'[h].method # "POST")
  /\ deleted' = (deleted /\ req'[h].method # "POST")
  /\ UNCHANGED serveErr
  /\ UNCHANGED <<wrapVars, backendVars>>

\* the handler returned: net/http sends the response and the goroutine ends
Reply(h) ==
  /\ req[h].pc = "done"
  /\ req' = [req EXCEPT ![h] = IdleRequest]
  /\ UNCHANGED <<wrapVars, backendVars, histVars>>

\* the handler execution h ends with response w and call log calls
Done(h, w, calls) ==
  LET r == [req[h] EXCEPT !.pc = "done", !.w = w, !.calls = calls]
  IN  /\ req' = [req EXCEPT ![h] = r]
      /\ lastPost' = IF kind = "file" /\ r.method = "POST" /\ r.quiet /\ w.status = 200
                     THEN Slice(r.body) ELSE lastPost
      /\ deleted' = IF /\ kind = "file" /\ r.method = "DELETE" /\ w.status = 200
                        /\ \A o \in Handlers \ {h} :
                             ~(InFlight(req[o]) /\ req[o].method = "POST")
                     THEN TRUE ELSE deleted
      /\ UNCHANGED <<pristine, serveErr>>

\* the call log of h with one more call / with the last call returned
CallingTwice(h, c) ==
  Append(Append(req[h].calls, Returned(c, NilSlice, FALSE, ZeroLockInfo, "failed, retried")), c)

Calling(h, c) == Append(req[h].calls, c)

Return(calls, rdata, rok, rlock, rerr) ==
  [calls EXCEPT ![Len(calls)] = Returned(@, rdata, rok, rlock, rerr)]

\* history: the file system failed an operation of the last call / the lock
\* was free when the last call was made
Faulted(calls, fault) == [calls EXCEPT ![Len(calls)].fault = @ \/ fault]

SawFree(calls, free) == [calls EXCEPT ![Len(calls)].free = free]


(* ------------------------------------------------------------------ *)
(* The file backend (pkg/backends/file)                                *)
(* ------------------------------------------------------------------ *)

\* os.Stat(f.filePath): nil, an error that Is ErrNotExist, or another error
Stat(f, fault) ==
  IF fault THEN "stat: permission denied"
  ELSE IF f.isNil THEN "ErrNotExist" ELSE Nil

\* os.ReadFile: (nil, err) when the file cannot be opened, the bytes read so
\* far and the error when a read fails, else the content.  fault: the file
\* system failed although the file was there.
ReadFile(f) ==
  IF f.isNil
  THEN {[data |-> NilSlice, err |-> "open: no such file or directory", fault |-> FALSE]}
  ELSE {[data |-> Slice(f.bytes), err |-> Nil, fault |-> FALSE],
        [data |-> NilSlice, err |-> "open: permission denied", fault |-> TRUE]}
       \cup {[data |-> Slice(p), err |-> "read: input/output error", fault |-> TRUE] :
               p \in Prefixes(f.bytes)}

\* os.WriteFile opens with O_WRONLY|O_CREATE|O_TRUNC: the file exists and is empty
OpenTruncKeepsContent(f) == IF f.isNil THEN Slice(<<>>) ELSE f

OpenTrunc(f) == Slice(<<>>)

\* ... and then writes data at offset 0 of the file it opened (which a
\* concurrent Delete may have unlinked meanwhile)
WriteAt0(f, data) ==
  IF f.isNil THEN f
  ELSE Slice(data \o SubSeq(f.bytes, Len(data) + 1, Len(f.bytes)))

\* backend.go:24-29, called from line 94
FileGetStat(h) ==
  /\ kind = "file"
  /\ req[h].pc = "get"
  /\ \E fault \in BOOLEAN :
       LET calls == Faulted(Calling(h, Call("Get", <<>>, "", NoComment, ZeroLockInfo)), fault)
           err   == Stat(file, fault)
       IN  CASE err = "ErrNotExist" ->
                  Done(h, AfterGet(req[h].w, NilSlice, Nil),
                       Return(calls, NilSlice, FALSE, ZeroLockInfo, Nil))
             [] err = Nil ->
                  /\ req' = [req EXCEPT ![h].pc = "get.read", ![h].calls = calls]
                  /\ UNCHANGED histVars
             [] OTHER ->
                  Done(h, AfterGet(req[h].w, NilSlice, err),
                       Return(calls, NilSlice, FALSE, ZeroLockInfo, err))
  /\ UNCHANGED <<wrapVars, backendVars>>

\* backend.go:30
FileGetRead(h) ==
  /\ kind = "file"
  /\ req[h].pc = "get.read"
  /\ \E res \in ReadFile(file) :
       Done(h, AfterGet(req[h].w, res.data, res.err),
            Return(Faulted(req[h].calls, res.fault), res.data, FALSE, ZeroLockInfo, res.err))
  /\ UNCHANGED <<wrapVars, backendVars>>

\* backend.go:33-35, called from line 116: os.WriteFile opens the file
FileSetOpen(h) ==
  /\ kind = "file"
  /\ req[h].pc = "set"
  /\ LET r == req[h]
     IN  \E fault \in BOOLEAN :
           LET calls == Faulted(Calling(h, Call("Set", r.data, QueryGet(r.query),
                                                Comment(action), ZeroLockInfo)), fault)
               err   == "open: permission denied"
           IN  IF fault
               THEN /\ Done(h, AfterSet(r.w, err),
                            Return(calls, NilSlice, FALSE, ZeroLockInfo, err))
                    /\ UNCHANGED file
               ELSE /\ file' = OpenTrunc(file)
                    /\ req' = [req EXCEPT ![h].pc = "set.write", ![h].calls = calls]
                    /\ UNCHANGED histVars
  /\ UNCHANGED <<wrapVars, kind, configurable, holder>>

\* ... and writes the data: all of it, or a part of it and an error
FileSetWrite(h) ==
  /\ kind = "file"
  /\ req[h].pc = "set.write"
  /\ LET r == req[h]
     IN  \E wr \in ReadOutcomes(r.data) :
           LET err == IF wr.err = Nil THEN Nil ELSE "write: no space left on device"
           IN  /\ file' = WriteAt0(file, wr.data)
               /\ Done(h, AfterSet(r.w, err),
                       Return(Faulted(r.calls, err # Nil), NilSlice, FALSE, ZeroLockInfo, err))
  /\ UNCHANGED <<wrapVars, kind, configurable, holder>>

\* backend.go:37-42, called from line 124
FileDeleteStat(h) ==
  /\ kind = "file"
  /\ req[h].pc = "delete"
  /\ \E fault \in BOOLEAN :
       LET calls == Faulted(Calling(h, Call("Delete", <<>>, "", NoComment, ZeroLockInfo)), fault)
           err   == Stat(file, fault)
       IN  CASE err = "ErrNotExist" ->
                  Done(h, AfterDelete(req[h].w, Nil),
                       Return(calls, NilSlice, FALSE, ZeroLockInfo, Nil))
             [] err = Nil ->
                  /\ req' = [req EXCEPT ![h].pc = "delete.remove", ![h].calls = calls]
                  /\ UNCHANGED histVars
             [] OTHER ->
                  Done(h, AfterDelete(req[h].w, err),
                       Return(calls, NilSlice, FALSE, ZeroLockInfo, err))
  /\ UNCHANGED <<wrapVars, backendVars>>

\* os.Remove: fails when the file is gone, or when the file system refuses
Remove(f, fault) ==
  IF f.isNil THEN "remove: no such file or directory"
  ELSE IF fault THEN "remove: permission denied" ELSE Nil

\* backend.go:43
FileDeleteRemove(h) ==
  /\ kind = "file"
  /\ req[h].pc = "delete.remove"
  /\ \E fault \in BOOLEAN :
       LET err == Remove(file, fault)
       IN  /\ file' = IF err = Nil THEN NilSlice ELSE file
           /\ Done(h, AfterDelete(req[h].w, err),
                   Return(Faulted(req[h].calls, fault /\ ~file.isNil), NilSlice, FALSE,
                          ZeroLockInfo, err))
  /\ UNCHANGED <<wrapVars, kind, configurable, holder>>

(* ------------------------------------------------------------------ *)
(* Any other Backend (the interface of wrapper.go:45-53)                *)
(* ------------------------------------------------------------------ *)

\* "stub": a lockable Backend about which nothing is assumed, every call
\* returns any value of its result type.  "mutex": the same, except that Lock
\* and UnLock are an atomic test-and-set on one lock.
BackendErr == "backend failure"

Errs == {Nil, BackendErr}

HeldLock == MkLock("id-held", "apply", SomeTime, "state.lock")

GetResults == {[data |-> d, err |-> e] : d \in {NilSlice} \cup {Slice(p) : p \in Payloads}, e \in Errs}

LockResults ==
  {[ok |-> o, lock |-> ZeroLockInfo, err |-> e] : o \in BOOLEAN, e \in Errs}
  \cup {[ok |-> FALSE, lock |-> HeldLock, err |-> e] : e \in Errs}

\* line 94
StubGet(h) ==
  /\ kind \in {"stub", "mutex"}
  /\ req[h].pc = "get"
  /\ \E res \in GetResults :
       Done(h, AfterGet(req[h].w, res.data, res.err),
            Return(Calling(h, Call("Get", <<>>, "", NoComment, ZeroLockInfo)),
                   res.data, FALSE, ZeroLockInfo, res.err))
  /\ UNCHANGED <<wrapVars, backendVars>>

\* line 116
StubSet(h) ==
  /\ kind \in {"stub", "mutex"}
  /\ req[h].pc = "set"
  /\ \E err \in Errs :
       Done(h, AfterSet(req[h].w, err),
            Return(Calling(h, Call("Set", req[h].data, QueryGet(req[h].query),
                                   Comment(action), ZeroLockInfo)),
                   NilSlice, FALSE, ZeroLockInfo, err))
  /\ UNCHANGED <<wrapVars, backendVars>>

\* line 124
StubDelete(h) ==
  /\ kind \in {"stub", "mutex"}
  /\ req[h].pc = "delete"
  /\ \E err \in Errs :
       Done(h, AfterDelete(req[h].w, err),
            Return(Calling(h, Call("Delete", <<>>, "", NoComment, ZeroLockInfo)),
                   NilSlice, FALSE, ZeroLockInfo, err))
  /\ UNCHANGED <<wrapVars, backendVars>>

\* line 149
StubLock(h) ==
  /\ kind = "stub"
  /\ req[h].pc = "lock"
  /\ \E res \in LockResults :
       Done(h, AfterLock(req[h].w, req[h].lockData, res.ok, res.lock, res.err),
            Return(Calling(h, Call("Lock", <<>>, "", NoComment, req[h].lockData)),
                   NilSlice, res.ok, res.lock, res.err))
  /\ UNCHANGED <<wrapVars, backendVars>>

\* line 165
StubUnLock(h) ==
  /\ kind = "stub"
  /\ req[h].pc = "unlock"
  /\ \E err \in Errs :
       Done(h, AfterUnLock(req[h].w, err),
            Return(Calling(h, Call("UnLock", <<>>, "", NoComment, req[h].lockData)),
                   NilSlice, FALSE, ZeroLockInfo, err))
  /\ UNCHANGED <<wrapVars, backendVars>>

\* line 149, on a Backend whose Lock is atomic: granted when no lock is held,
\* else refused with the lock that is held
MutexLock(h) ==
  /\ kind = "mutex"
  /\ req[h].pc = "lock"
  /\ LET r   == req[h]
         ok  == ~holder.held
         cur == IF holder.held THEN holder.info ELSE r.lockData
     IN  /\ holder' = IF ok THEN Held(r.lockData) ELSE holder
         /\ Done(h, AfterLock(r.w, r.lockData, ok, cur, Nil),
                 Return(SawFree(Calling(h, Call("Lock", <<>>, "", NoComment, r.lockData)), ok),
                        NilSlice, ok, cur, Nil))
  /\ UNCHANGED <<wrapVars, kind, configurable, file>>

\* line 165, on that Backend: the holder's ID releases the lock
MutexUnLock(h) ==
  /\ kind = "mutex"
  /\ req[h].pc = "unlock"
  /\ LET r   == req[h]
         err == IF holder.held /\ holder.info.ID = r.lockData.ID THEN Nil ELSE "not the holder"
     IN  /\ holder' = IF err = Nil THEN NotHeld ELSE holder
         /\ Done(h, AfterUnLock(r.w, err),
                 Return(Calling(h, Call("UnLock", <<>>, "", NoComment, r.lockData)),
                        NilSlice, FALSE, ZeroLockInfo, err))
  /\ UNCHANGED <<wrapVars, kind, configurable, file>>

(* ------------------------------------------------------------------ *)
(* The specification                                                   *)
(* ------------------------------------------------------------------ *)

Next ==
  \/ WrapConfig
  \/ WrapListen
  \/ WrapGo
  \/ ServeReturn
  \/ WrapSetenv
  \/ WrapLaunch
  \/ WrapChildExit
  \/ \E h \in Handlers : Receive(h)
  \/ \E h \in Handlers : Reply(h)
  \/ \E h \in Handlers : FileGetStat(h)
  \/ \E h \in Handlers : FileGetRead(h)
  \/ \E h \in Handlers : FileSetOpen(h)
  \/ \E h \in Handlers : FileSetWrite(h)
  \/ \E h \in Handlers : FileDeleteStat(h)
  \/ \E h \in Handlers : FileDeleteRemove(h)
  \/ \E h \in Handlers : StubGet(h)
  \/ \E h \in Handlers : StubSet(h)
  \/ \E h \in Handlers : StubDelete(h)
  \/ \E h \in Handlers : StubLock(h)
  \/ \E h \in Handlers : StubUnLock(h)
  \/ \E h \in Handlers : MutexLock(h)
  \/ \E h \in Handlers : MutexUnLock(h)

Spec == Init /\ [][Next]_vars


(* ------------------------------------------------------------------ *)
(* Properties                                                          *)
(* ------------------------------------------------------------------ *)

\* the handler execution h has returned; req[h].w is the response
Answered(h) == req[h].pc = "done"

\* the request carries exactly the session's credentials
GoodCreds(r) == r.creds = Creds(AuthUser, authPassword)

\* a response body that is exactly these bytes / exactly this error text
BodyOf(bytes) == IF bytes = <<>> THEN <<>> ELSE <<RawChunk(bytes)>>

ErrBody(e) == <<LineChunk(e)>>

LastCall(r) == r.calls[Len(r.calls)]

CallsOf(r, ops) == {i \in 1..Len(r.calls) : r.calls[i].op \in ops}

\* C1: a request whose Basic credentials are missing or differ from the
\* session's gets status 401, whatever its method and whatever the Backend
\* returned.
C1_Unauthorized401 ==
  \A h \in Handlers :
    (Answered(h) /\ ~GoodCreds(req[h])) => req[h].w.status = 401

\* C1 witness: a GET with a wrong password was answered after the Backend
\* returned a payload, next to a DELETE without credentials answered after
\* the Backend returned an error
C1_Witness ==
  /\ \E h \in Handlers :
       /\ Answered(h) /\ req[h].method = "GET"
       /\ req[h].creds = Creds(AuthUser, OtherPassword)
       /\ req[h].calls # <<>> /\ ~LastCall(req[h]).rdata.isNil
       /\ req[h].w.status = 401
  /\ \E h \in Handlers :
       /\ Answered(h) /\ req[h].method = "DELETE" /\ req[h].creds = NoCreds
       /\ req[h].calls # <<>> /\ LastCall(req[h]).rerr # Nil
       /\ req[h].w.status = 401

\* C2: an authenticated GET is answered 404 with an empty body when Get
\* reports no state, 200 with exactly the payload when Get returns one, and
\* 500 with the error text as the body when Get returns an error.
C2_GetMapping ==
  \A h \in Handlers :
    (Answered(h) /\ GoodCreds(req[h]) /\ req[h].method = "GET") =>
      /\ Len(req[h].calls) = 1
      /\ LET c == req[h].calls[1]
             w == req[h].w
         IN  /\ c.op = "Get"
             /\ (c.rerr = Nil /\ c.rdata.isNil) => (w.status = 404 /\ w.body = <<>>)
             /\ (c.rerr = Nil /\ ~c.rdata.isNil) =>
                  (w.status = 200 /\ w.body = BodyOf(c.rdata.bytes))
             /\ (c.rerr # Nil) => (w.status = 500 /\ w.body = ErrBody(c.rerr))

\* C2, the part that holds: the 404 and the 200 of a Get without error, and
\* the status 500 of a Get with an error
C2_GetStatus ==
  \A h \in Handlers :
    (Answered(h) /\ GoodCreds(req[h]) /\ req[h].method = "GET") =>
      /\ Len(req[h].calls) = 1
      /\ LET c == req[h].calls[1]
             w == req[h].w
         IN  /\ c.op = "Get"
             /\ (c.rerr = Nil /\ c.rdata.isNil) => (w.status = 404 /\ w.body = <<>>)
             /\ (c.rerr = Nil /\ ~c.rdata.isNil) =>
                  (w.status = 200 /\ w.body = BodyOf(c.rdata.bytes))
             /\ (c.rerr # Nil) => (w.status = 500 /\ w.body[1] = LineChunk(c.rerr))

\* C3: an authenticated POST calls Set with the full request body as data and
\* the value of the query parameter ID ("" when absent) as lockID, and is
\* answered 200 with an empty body when Set succeeds.
C3_PostCallsSet ==
  \A h \in Handlers :
    (GoodCreds(req[h]) /\ req[h].method = "POST") =>
      /\ \A i \in CallsOf(req[h], {"Set"}) :
           /\ req[h].calls[i].data = req[h].body
           /\ req[h].calls[i].lockID = QueryGet(req[h].query)
      /\ Answered(h) =>
           /\ CallsOf(req[h], {"Set"}) # {}
           /\ LastCall(req[h]).rerr = Nil => (req[h].w.status = 200 /\ req[h].w.body = <<>>)


\* C3 part that holds: Set gets the bytes the handler read and the ID of the
\* query, and a POST whose body was read and whose Set succeeded is answered
\* 200 with an empty body
C3_PostReadBody ==
  \A h \in Handlers :
    (GoodCreds(req[h]) /\ req[h].method = "POST") =>
      /\ \A i \in CallsOf(req[h], {"Set"}) :
           /\ req[h].calls[i].data = req[h].data
           /\ req[h].calls[i].lockID = QueryGet(req[h].query)
      /\ (Answered(h) /\ req[h].readErr = Nil /\ LastCall(req[h]).rerr = Nil) =>
           (req[h].w.status = 200 /\ req[h].w.body = <<>>)

\* C4: with the file backend and correct credentials, a GET that follows a
\* POST of P answered 200, with no POST or DELETE in between, is answered 200
\* with body P, and a GET on a backend that started empty and saw no POST is
\* answered 404 (the storage being durable: the file system does not fail the
\* operations of that GET).
C4_RoundTrip ==
  \A h \in Handlers :
    (/\ kind = "file" /\ Answered(h) /\ req[h].method = "GET" /\ GoodCreds(req[h])
     /\ \A i \in 1..Len(req[h].calls) : ~req[h].calls[i].fault) =>
      /\ ~req[h].expect.isNil =>
           (req[h].w.status = 200 /\ req[h].w.body = BodyOf(req[h].expect.bytes))
      /\ req[h].expectAbsent => (req[h].w.status = 404)

\* C4 witness: a GET answered with the payload "x" of the POST before it,
\* which replaced a different state
C4_Witness ==
  \E h \in Handlers :
    /\ kind = "file" /\ Answered(h) /\ req[h].method = "GET" /\ GoodCreds(req[h])
    /\ req[h].expect = Slice(<<"x">>)
    /\ req[h].w = [status |-> 200, body |-> <<RawChunk(<<"x">>)>>]

\* C4 witness of the second part: a GET on the empty backend answered 404
C4_WitnessEmpty ==
  \E h \in Handlers :
    /\ kind = "file" /\ Answered(h) /\ req[h].method = "GET" /\ GoodCreds(req[h])
    /\ req[h].expectAbsent /\ req[h].w.status = 404

\* C5: an authenticated LOCK on a lockable backend is answered 200 with an
\* empty body when Lock grants, and 409 with the JSON text of exactly the
\* LockInfo that Lock returned when it does not.
C5_LockMapping ==
  \A h \in Handlers :
    (/\ Answered(h) /\ GoodCreds(req[h]) /\ req[h].method = "LOCK" /\ Lockable(kind)
     /\ CallsOf(req[h], {"Lock"}) # {}) =>
      LET c == LastCall(req[h])
          w == req[h].w
      IN  /\ (c.rerr = Nil /\ c.rok) => (w.status = 200 /\ w.body = <<>>)
          /\ (c.rerr = Nil /\ ~c.rok) =>
               /\ w.status = 409
               /\ Len(w.body) = 1
               /\ w.body[1].kind = "json"
               /\ Unmarshal(w.body[1].doc[1]) = [lock |-> c.rlock, err |-> Nil]

\* C5 part that holds: the same, for the requests whose body was read and
\* decoded without error
C5_LockMappingDecoded ==
  \A h \in Handlers :
    (/\ Answered(h) /\ GoodCreds(req[h]) /\ req[h].method = "LOCK" /\ Lockable(kind)
     /\ req[h].readErr = Nil /\ req[h].decodeErr = Nil
     /\ CallsOf(req[h], {"Lock"}) # {}) =>
      LET c == LastCall(req[h])
          w == req[h].w
      IN  /\ (c.rerr = Nil /\ c.rok) => (w.status = 200 /\ w.body = <<>>)
          /\ (c.rerr = Nil /\ ~c.rok) =>
               /\ w.status = 409
               /\ Len(w.body) = 1
               /\ w.body[1].kind = "json"
               /\ Unmarshal(w.body[1].doc[1]) = [lock |-> c.rlock, err |-> Nil]


\* a LOCK request of the scenario of C6: authenticated, its body read and
\* decoded, answered, and no UNLOCK in flight with it or after it
LockAttempt(h) ==
  /\ Answered(h) /\ req[h].method = "LOCK" /\ GoodCreds(req[h])
  /\ req[h].readErr = Nil /\ req[h].decodeErr = Nil
  /\ req[h].quiet
  /\ CallsOf(req[h], {"Lock"}) # {}

\* h was answered 200, and g 409 with the LockInfo of h's request
WonAgainst(h, g) ==
  /\ req[h].w = [status |-> 200, body |-> <<>>]
  /\ req[g].w.status = 409
  /\ Len(req[g].w.body) = 1
  /\ req[g].w.body[1].kind = "json"
  /\ Unmarshal(req[g].w.body[1].doc[1]) = [lock |-> Unmarshal(req[h].doc).lock, err |-> Nil]

\* C6: on a lockable backend with an atomic Lock and no lock held, two
\* authenticated LOCK requests with different IDs, however their handler
\* executions interleave, end with one answered 200 and the other answered 409
\* with the LockInfo of the one answered 200.
C6_OneLockWins ==
  \A h, g \in Handlers :
    (/\ kind = "mutex" /\ h # g
     /\ LockAttempt(h) /\ LockAttempt(g)
     /\ req[h].lockData.ID # req[g].lockData.ID
     /\ LastCall(req[h]).free \/ LastCall(req[g]).free) =>
      (WonAgainst(h, g) \/ WonAgainst(g, h))

\* C6 witness: the two attempts were in flight together and were answered,
\* the one for "id-b" won, and the loser's 409 carries a LockInfo with that ID
C6_Witness ==
  \E h, g \in Handlers :
    /\ kind = "mutex" /\ h # g
    /\ LockAttempt(h) /\ LockAttempt(g)
    /\ req[h].lockData.ID = "id-b" /\ req[g].lockData.ID = "id-a"
    /\ req[h].raced /\ req[g].raced
    /\ WonAgainst(h, g)
    /\ req[g].w.body[1].doc[1].val.ID = "id-b"

\* C7: an authenticated request whose method is not GET, POST or DELETE, on a
\* backend that is not lockable or with a method that is neither LOCK nor
\* UNLOCK, is answered 405 "invalid method" and makes no Lock or UnLock call.
C7_InvalidMethod ==
  \A h \in Handlers :
    (/\ req[h].pc # "idle" /\ GoodCreds(req[h])
     /\ req[h].method \notin {"GET", "POST", "DELETE"}
     /\ ~Lockable(kind) \/ req[h].method \notin {"LOCK", "UNLOCK"}) =>
      /\ Answered(h)
      /\ req[h].w = [status |-> 405, body |-> <<LineChunk("invalid method")>>]
      /\ CallsOf(req[h], {"Lock", "UnLock"}) = {}

\* C7 witness: a LOCK on the file backend answered 405
C7_Witness ==
  \E h \in Handlers :
    /\ kind = "file" /\ Answered(h) /\ GoodCreds(req[h]) /\ req[h].method = "LOCK"
    /\ req[h].w.status = 405

\* C8: an authenticated GET, POST, DELETE, LOCK or UNLOCK whose Backend call
\* returned an error is answered 500 with the error text, and nothing else,
\* as the body.
C8_BackendError500 ==
  \A h \in Handlers :
    (/\ Answered(h) /\ GoodCreds(req[h])
     /\ req[h].method \in {"GET", "POST", "DELETE", "LOCK", "UNLOCK"}
     /\ req[h].calls # <<>>
     /\ LastCall(req[h]).rerr # Nil) =>
      req[h].w = [status |-> 500, body |-> ErrBody(LastCall(req[h]).rerr)]

\* C8 part that holds: the error text of the Backend is in the body, and the
\* status is 500
C8_BackendErrorReported ==
  \A h \in Handlers :
    (/\ Answered(h) /\ GoodCreds(req[h])
     /\ req[h].calls # <<>>
     /\ LastCall(req[h]).rerr # Nil) =>
      /\ req[h].w.status = 500
      /\ \E i \in 1..Len(req[h].w.body) : req[h].w.body[i] = LineChunk(LastCall(req[h]).rerr)

\* C9: when the child that Wrap launched exits with status n, the wrapper
\* process ends with exit status n, for n = 0 and for n # 0.
C9_ExitStatusPropagated ==
  child.state = "exited" => (wpc = "exited" /\ exitCode = child.status)

\* C9 witness: the child exited with 7 and so did the wrapper
C9_Witness == child = [state |-> "exited", status |-> 7] /\ wpc = "exited" /\ exitCode = 7

\* C10: no Get, Set, Delete, Lock or UnLock call is made before Config has
\* returned nil, and Config is called once: never twice, and by the time Wrap
\* goes on or ends, once.
C10_ConfigFirst ==
  /\ configCalls = IF wpc = "config" THEN 0 ELSE 1
  /\ \A h \in Handlers : req[h].pc # "idle" => (configOK /\ configCalls = 1)

\* C10 witness: a handler execution has called the Backend
C10_Witness ==
  \E h \in Handlers : req[h].calls # <<>> /\ LastCall(req[h]).returned /\ configOK

\* a DELETE of the file backend, correctly authenticated and answered, none of
\* whose file operations the file system failed
DeleteAnswered(h) ==
  /\ kind = "file" /\ Answered(h) /\ req[h].method = "DELETE" /\ GoodCreds(req[h])
  /\ \A i \in 1..Len(req[h].calls) : ~req[h].calls[i].fault

\* C11: with the file backend (the file system failing no operation), an
\* authenticated DELETE is answered 200 whether the state exists or is
\* absent; after a DELETE answered 200 and no POST since, a GET is answered
\* 404 and the state stays absent whatever further DELETE is made.
C11_DeleteIdempotent ==
  /\ \A h \in Handlers :
       DeleteAnswered(h) => req[h].w = [status |-> 200, body |-> <<>>]
  /\ \A h \in Handlers :
       (/\ kind = "file" /\ Answered(h) /\ req[h].method = "GET" /\ GoodCreds(req[h])
        /\ \A i \in 1..Len(req[h].calls) : ~req[h].calls[i].fault
        /\ req[h].expectDeleted) => req[h].w = [status |-> 404, body |-> <<>>]
  /\ deleted => file.isNil

\* C11, the part that holds: a DELETE that found the state absent is answered
\* 200, and so is one whose Remove found the file; after a DELETE answered
\* 200 and no POST since, a GET is answered 404 and the state stays absent.
C11_DeleteThenAbsent ==
  /\ \A h \in Handlers :
       (DeleteAnswered(h) /\ LastCall(req[h]).rerr = Nil) =>
          req[h].w = [status |-> 200, body |-> <<>>]
  /\ \A h \in Handlers :
       (/\ kind = "file" /\ Answered(h) /\ req[h].method = "GET" /\ GoodCreds(req[h])
        /\ \A i \in 1..Len(req[h].calls) : ~req[h].calls[i].fault
        /\ req[h].expectDeleted) => req[h].w = [status |-> 404, body |-> <<>>]
  /\ deleted => file.isNil

\* a GET that followed a DELETE answered 200 on a backend that had state was
\* answered 404
C11_GetAfterDelete ==
  \E h \in Handlers :
    /\ kind = "file" /\ Answered(h) /\ req[h].method = "GET" /\ GoodCreds(req[h])
    /\ req[h].expectDeleted /\ ~req[h].expectAbsent /\ req[h].w.status = 404

\* C12: when the child is launched, TF_HTTP_ADDRESS is the adapter URL,
\* TF_HTTP_USERNAME and TF_HTTP_PASSWORD are the credentials the handler
\* checks against, and Wrap has set TF_HTTP_LOCK_ADDRESS and
\* TF_HTTP_UNLOCK_ADDRESS, to the value of TF_HTTP_ADDRESS, exactly when the
\* Backend is lockable.
C12_EnvAtLaunch ==
  (wpc \in {"launch", "wait"} \/ child.state # "none") =>
    /\ env["TF_HTTP_ADDRESS"] = BackendUrl
    /\ env["TF_HTTP_USERNAME"] = AuthUser
    /\ env["TF_HTTP_PASSWORD"] = authPassword
    /\ authPassword \in Passwords
    /\ AuthOK(Creds(env["TF_HTTP_USERNAME"], env["TF_HTTP_PASSWORD"]), AuthUser, authPassword)
    /\ IF Lockable(kind)
       THEN /\ env["TF_HTTP_LOCK_ADDRESS"] = env["TF_HTTP_ADDRESS"]
            /\ env["TF_HTTP_UNLOCK_ADDRESS"] = env["TF_HTTP_ADDRESS"]
       ELSE /\ env["TF_HTTP_LOCK_ADDRESS"] = Unset
            /\ env["TF_HTTP_UNLOCK_ADDRESS"] = Unset

\* C12 witness: the child of a run with a lockable Backend is running, the
\* lock address is set, and a request carrying the credentials of the
\* environment was answered 200
C12_Witness ==
  /\ child.state = "running" /\ Lockable(kind)
  /\ env["TF_HTTP_LOCK_ADDRESS"] = BackendUrl
  /\ \E h \in Handlers :
       /\ Answered(h)
       /\ req[h].creds = Creds(env["TF_HTTP_USERNAME"], env["TF_HTTP_PASSWORD"])
       /\ req[h].w.status = 200

\* C12 witness of the other case: the child of a run with the file backend is
\* running and the lock addresses were left alone
C12_WitnessNotLockable ==
  /\ child.state = "running" /\ ~Lockable(kind)
  /\ env["TF_HTTP_PASSWORD"] = authPassword /\ env["TF_HTTP_LOCK_ADDRESS"] = Unset

\* Wrap has left the child-wait step: the child exited, or could not be
\* started or waited on, and the process has terminated
LeftChildWait == wpc = "exited" /\ child.state # "none"

\* C13: on every path by which Wrap leaves the child-wait step, the
\* listener's close function has run when the process terminates.
C13_ListenerClosedAtExit ==
  LeftChildWait => (listener = "closed" /\ deferred = <<>>)

\* C13, what holds instead: the close function is deferred once the listener
\* is bound, and is still waiting to run, the listener open, when the process
\* has terminated
C13_CloseNeverRuns ==
  /\ listener # "none" => (listener = "open" /\ deferred = <<"closeListener">>)
  /\ listener = "none" => deferred = <<>>

\* C14: when http.Serve returns because the listener was closed deliberately
\* the goroutine returns and the process goes on, and when it returns any
\* other error the process is terminated fatally.
C14_ServeErrorFatal ==
  [][(serveErr = Nil /\ serveErr' # Nil) =>
       IF serveErr' = ClosedListenerErr
       THEN ~serving' /\ wpc' = wpc /\ wpc' # "exited"
       ELSE wpc' = "exited" /\ exitCode' = 1]_vars

\* C14, what holds instead: whatever error http.Serve returns, the goroutine
\* returns and Wrap goes on where it was
C14_ServeReturnNeverFatal ==
  [][(serveErr = Nil /\ serveErr' # Nil) => (~serving' /\ wpc' = wpc /\ wpc' # "exited")]_vars

\* http.Serve returned an error that is not the one of a closed listener, and
\* the child was started later and exited with 0, as did the wrapper
C14_ErrorSurvived ==
  /\ serveErr # Nil /\ serveErr # ClosedListenerErr
  /\ child = [state |-> "exited", status |-> 0] /\ wpc = "exited" /\ exitCode = 0

\* the Backend method that the handler calls for a GET, POST or DELETE
OpOf(method) ==
  CASE method = "GET" -> "Get"
    [] method = "POST" -> "Set"
    [] method = "DELETE" -> "Delete"

\* an answered GET, POST or DELETE whose credentials are missing or wrong
UnauthorizedAnswered(h) ==
  /\ Answered(h) /\ ~GoodCreds(req[h])
  /\ req[h].method \in {"GET", "POST", "DELETE"}

\* what such a request leaves behind: the 401, the one Backend call of its
\* method made with what the request carried, and for a GET the payload that
\* Get returned, written after the "Unauthorized" line
WentOn(h) ==
  LET r == req[h]
      c == r.calls[1]
  IN  /\ r.w.status = 401
      /\ r.w.body[1] = LineChunk("Unauthorized")
      /\ Len(r.calls) = 1 /\ c.returned /\ c.op = OpOf(r.method)
      /\ r.method = "POST" =>
           (c.data = r.data /\ c.lockID = QueryGet(r.query) /\ c.comment = Comment(action))
      /\ (r.method = "GET" /\ ~c.rdata.isNil /\ c.rdata.bytes # <<>>) =>
           r.w.body[Len(r.w.body)] = RawChunk(c.rdata.bytes)

\* a step by which the file backend completes the Set or the Delete of a
\* request without credentials, or with wrong ones, changes the stored state
\* as the request asked
TakesEffect(h) ==
  LET r == req[h]
  IN  (/\ kind = "file" /\ ~GoodCreds(r) /\ ~file.isNil
       /\ r.pc \in {"set.write", "delete.remove"}
       /\ req'[h].pc = "done" /\ LastCall(req'[h]).rerr = Nil) =>
        /\ r.pc = "set.write" =>
             (~file'.isNil /\ SubSeq(file'.bytes, 1, Len(r.data)) = r.data)
        /\ r.pc = "delete.remove" => file'.isNil

\* C15: a request with missing or wrong credentials is not stopped after the
\* 401: the handler goes on and calls the Backend operation of the request's
\* method, so that an unauthenticated POST or DELETE changes the stored state
\* and an unauthenticated GET gets the stored payload in its response body.
C15_UnauthorizedGoesOn ==
  /\ [](\A h \in Handlers : UnauthorizedAnswered(h) => WentOn(h))
  /\ [][\A h \in Handlers : TakesEffect(h)]_vars

\* C15 witness: on the file backend a POST with a wrong password was answered
\* 401 and the file holds its body, next to a GET without credentials
\* answered 401 with that payload after the "Unauthorized" line
C15_Witness ==
  /\ kind = "file" /\ file = Slice(<<"x">>)
  /\ \E h \in Handlers :
       /\ UnauthorizedAnswered(h) /\ req[h].method = "POST"
       /\ req[h].creds = Creds(AuthUser, OtherPassword)
       /\ req[h].body = <<"x">> /\ LastCall(req[h]).rerr = Nil
       /\ req[h].w.status = 401
  /\ \E h \in Handlers :
       /\ UnauthorizedAnswered(h) /\ req[h].method = "GET" /\ req[h].creds = NoCreds
       /\ req[h].w = [status |-> 401,
                      body |-> <<LineChunk("Unauthorized"), RawChunk(<<"x">>)>>]

\* C15 witness for DELETE: a DELETE without credentials was answered 401 after
\* its Remove succeeded, and the state is gone
C15_WitnessDelete ==
  \E h \in Handlers :
    /\ kind = "file" /\ file.isNil /\ ~pristine
    /\ UnauthorizedAnswered(h) /\ req[h].method = "DELETE" /\ req[h].creds = NoCreds
    /\ LastCall(req[h]).rerr = Nil /\ req[h].w.status = 401

\* the lifecycle state of a run of Wrap (ChildExitedOk and ChildExitedErr are
\* passed within the step that ends the process: child.state tells which)
Lifecycle ==
  CASE wpc = "config" -> "Init"
    [] wpc = "listen" -> "Configured"
    [] wpc = "go" -> "Listening"
    [] wpc \in {"setenv", "launch"} -> "Serving"
    [] wpc = "wait" -> "ChildRunning"
    [] wpc = "exited" -> "Terminated"

LifecycleOrder == <<"Init", "Configured", "Listening", "Serving", "ChildRunning", "Terminated">>

Rank(l) == CHOOSE i \in 1..Len(LifecycleOrder) : LifecycleOrder[i] = l

\* the serving task has been started
TaskStarted == serving \/ serveErr # Nil

\* the environment variables have been published
Published == env["TF_HTTP_ADDRESS"] # Unset

\* one step of a run keeps the order of the lifecycle
InOrder ==
  LET now  == Lifecycle
      next == Lifecycle'
  IN  /\ Rank(next) >= Rank(now)
      /\ Rank(next) > Rank(now) + 1 => next = "Terminated"
      /\ listener' # listener => (listener = "none" /\ listener' = "open" /\ configOK)
      /\ (serving' /\ ~serving) => (listener = "open" /\ serveErr = Nil)
      /\ env' # env => (TaskStarted /\ ~Published)
      /\ child' # child =>
           \/ child.state = "none" /\ Published /\ TaskStarted
           \/ child.state = "running" /\ child'.state # "running"

\* C16: a run of Wrap passes through Init, Configured, Listening, Serving,
\* ChildRunning, ChildExitedOk or ChildExitedErr, Terminated in that order and
\* never goes back: the listener is bound after Config succeeded, the serving
\* task is started after the listener is bound, the environment is published
\* after the serving task is started, the child is launched after the
\* environment is published, and one listener and one child at most.
C16_LifecycleOrder ==
  /\ [][InOrder]_vars
  /\ [](/\ listener # "none" => (configOK /\ Rank(Lifecycle) >= Rank("Listening"))
        /\ TaskStarted => listener # "none"
        /\ Published => Rank(Lifecycle) >= Rank("Serving")
        /\ child.state # "none" => (Published /\ Rank(Lifecycle) >= Rank("ChildRunning"))
        /\ Lifecycle = "ChildRunning" <=> child.state = "running")

\* C16 witness: a run went through every state: the listener bound, the
\* environment published, the child run to its exit with 7, the process ended
C16_Witness ==
  /\ Lifecycle = "Terminated" /\ child = [state |-> "exited", status |-> 7]
  /\ configOK /\ listener = "open" /\ Published /\ serveErr = Nil /\ exitCode = 7

\* Backend.Config returned an error / binding the listener failed
ConfigFailed == configCalls = 1 /\ ~configOK

BindFailed == logged = BindErr

\* a failed setup ended the run: non-zero exit status and no child launched
EndedWithoutChild == wpc = "exited" /\ exitCode # 0 /\ child.state = "none"

\* what C17 says of a failing Config and of a failing bind
ConfigOrBindFailure ==
  /\ ConfigFailed => (EndedWithoutChild /\ listener = "none" /\ ~TaskStarted)
  /\ BindFailed => (EndedWithoutChild /\ listener = "none" /\ ~TaskStarted)

C17_WitnessConfig ==
  /\ ConfigFailed /\ wpc = "exited" /\ exitCode = 1 /\ logged = ConfigResult(FALSE)
  /\ args # <<>> /\ listener = "none"

C17_WitnessBind == BindFailed /\ configOK /\ wpc = "exited" /\ exitCode = 1 /\ args # <<>>

\* an answered, correctly authenticated LOCK or UNLOCK on a lockable Backend
\* whose body was read in full and is not the JSON of a LockInfo
UndecodableAnswered(h) ==
  /\ Answered(h) /\ GoodCreds(req[h]) /\ Lockable(kind)
  /\ req[h].method \in {"LOCK", "UNLOCK"}
  /\ req[h].readErr = Nil /\ req[h].decodeErr # Nil

\* C18: an authenticated LOCK or UNLOCK on a lockable Backend whose body is
\* not valid JSON for a LockInfo is answered 500 with the decode error text as
\* its body, and Lock / UnLock is not called with a LockInfo that was not
\* decoded from the body.
C18_DecodeError ==
  \A h \in Handlers :
    UndecodableAnswered(h) =>
      /\ req[h].w = [status |-> 500, body |-> ErrBody(req[h].decodeErr)]
      /\ CallsOf(req[h], {"Lock", "UnLock"}) = {}

\* C18, what holds instead: the status is 500 and the body starts with the
\* decode error text, and Lock or UnLock is called once, with the LockInfo as
\* json.Unmarshal left it (zero, or with the fields it could set)
C18_DecodeErrorThenCall ==
  \A h \in Handlers :
    UndecodableAnswered(h) =>
      /\ req[h].w.status = 500
      /\ req[h].w.body[1] = LineChunk(req[h].decodeErr)
      /\ Len(req[h].calls) = 1
      /\ req[h].calls[1].op = IF req[h].method = "LOCK" THEN "Lock" ELSE "UnLock"
      /\ req[h].calls[1].lock = Unmarshal(req[h].doc).lock

\* a LOCK whose body is not JSON took the lock of the mutex Backend, with a
\* zero LockInfo, and was answered 500
C18_LockTakenUndecoded ==
  \E h \in Handlers :
    /\ UndecodableAnswered(h) /\ kind = "mutex" /\ req[h].method = "LOCK"
    /\ req[h].doc = SyntaxErrDoc
    /\ holder = Held(ZeroLockInfo) /\ LastCall(req[h]).rok
    /\ req[h].w.status = 500

\* the arguments passed to the child process: those after the command name
\* (lines 250-251: args[0] is the command, args[1:] its arguments)
ChildArgs(a) == IF a = <<>> THEN <<>> ELSE Tail(a)

\* the comments of the Set calls made so far
SetComments ==
  UNION {{req[h].calls[i].comment : i \in CallsOf(req[h], {"Set"})} : h \in Handlers}

\* C19: the action label in the Set comment is the first argument passed to
\* the child process that does not start with '-', "" if there is none:
\* "plan" for `wrapper terraform plan`.
C19_ActionLabel ==
  \A c \in SetComments : c = Comment(TerraformAction(ChildArgs(args)))

\* C19, what holds instead: the label is the first argument of the whole
\* command line, command name included, that does not start with '-':
\* "terraform" for `wrapper terraform plan`
C19_ActionIsFirstOfAll ==
  /\ \A c \in SetComments : c = Comment(TerraformAction(args))
  /\ (args = <<"terraform", "plan">> /\ wpc # "config" /\ configOK) => action = "terraform"

\* a Set call of the run `wrapper terraform plan` carried the label "terraform"
C19_LabelIsCommandName ==
  /\ args = <<"terraform", "plan">>
  /\ SetComments = {[action |-> "terraform", by |-> SystemUserName]}

\* the Backend method that matches a branch of the handler
BranchOp(route) ==
  CASE route = "get" -> "Get"
    [] route = "post" -> "Set"
    [] route = "delete" -> "Delete"
    [] route = "lock" -> "Lock"
    [] route = "unlock" -> "UnLock"

\* C20: a handled GET, POST, DELETE or, on a lockable Backend, LOCK or UNLOCK
\* makes exactly one call of Get, Set, Delete, Lock, UnLock: the one of its
\* method, once, also when the body could not be read or the call returned
\* an error; a request answered 405 makes none.
C20_OneBackendCall ==
  \A h \in Handlers :
    LET r     == req[h]
        route == Route(r.method, Lockable(kind))
    IN  /\ Len(r.calls) <= 1
        /\ Answered(h) =>
             IF route = "invalid"
             THEN r.calls = <<>> /\ r.w.status \in {401, 405}
             ELSE /\ Len(r.calls) = 1
                  /\ r.calls[1].op = BranchOp(route)
                  /\ r.calls[1].returned
        /\ (Answered(h) /\ r.w.status = 405) => r.calls = <<>>

\* C20 witness: a POST whose body could not be read made its one Set call,
\* next to a GET whose one Get call returned an error
C20_Witness ==
  /\ \E h \in Handlers :
       /\ Answered(h) /\ req[h].method = "POST" /\ req[h].readErr # Nil
       /\ Len(req[h].calls) = 1 /\ req[h].calls[1].op = "Set"
  /\ \E h \in Handlers :
       /\ Answered(h) /\ req[h].method = "GET"
       /\ Len(req[h].calls) = 1 /\ req[h].calls[1].rerr # Nil

\* C20 witnesses: an UNLOCK on a lockable Backend made its one UnLock call,
\* which returned an error; a request answered 405 made no call
C20_WitnessUnLock ==
  \E h \in Handlers :
    /\ Answered(h) /\ req[h].method = "UNLOCK" /\ Lockable(kind)
    /\ Len(req[h].calls) = 1 /\ req[h].calls[1].op = "UnLock" /\ req[h].calls[1].rerr # Nil

C20_Witness405 ==
  \E h \in Handlers :
    Answered(h) /\ req[h].method = "PUT" /\ req[h].w.status = 405 /\ req[h].calls = <<>>

====
